---- MODULE Spec2Model ----
(***************************************************************************)
(* Model of os/kernel/binary_manager/binary_manager_binfile.c: the stale   *)
(* version collector (binary_manager_clear_binfile), the discovery scanner *)
(* (binary_manager_scan_ubin) and the entry-creation service               *)
(* (binary_manager_create_entry).                                          *)
(*                                                                         *)
(* Strings are sequences of one-character strings, so that snprintf,       *)
(* strncmp and the d_name[name_len] test are computed character by         *)
(* character.  A position past the end of a string reads as NUL.           *)
(***************************************************************************)
EXTENDS Integers, Sequences, FiniteSets, TLC

(***************************************************************************)
(* Bounds of the model.                                                    *)
(***************************************************************************)
\* Requests carry the versions -1 .. MaxVer and LongVer.
MaxVer == 1
\* A version of two digits, the first of which is a version of one digit.
LongVer == 10
\* Largest version of a binary already running when the model starts.
MaxBootVer == 2

(***************************************************************************)
(* Program constants.                                                      *)
(***************************************************************************)
\* Capacity of the user part of the registry (the table behind BIN_NAME/BIN_VER).
USER_BIN_COUNT == 2
\* The result codes are those of binmgr_result_type_e; the code tests only
\* their sign (line 175) and tells them apart.
BINMGR_OK == 0
BINMGR_OPERATION_FAIL == -2
BINMGR_INVALID_PARAM == -4
BINMGR_NOT_FOUND == -5
BINMGR_ALREADY_UPDATED == -8
\* Version held by a slot that register_ubin has just created (zeroed table).
UNLOADED_VER == 0

NUL == "NUL"
\* The null pointer passed as bin_name: a one-element sequence holding no character.
NULL == <<"NULL">>
KERNEL_NAME == <<"k", "e", "r", "n", "e", "l">>
BINARY_DIR_PATH == <<"/", "b", "i", "n", "s">>
BINMGR_RESPONSE_MQ_PREFIX == <<"r", "e", "s", "p">>
DEVNAME_PREFIX == <<"/", "d", "e", "v", "/", "m", "t", "d">>

(***************************************************************************)
(* C library.                                                              *)
(***************************************************************************)
Digit(d) == <<"0", "1", "2", "3", "4", "5", "6", "7", "8", "9">>[d + 1]

RECURSIVE NatToDec(_)
NatToDec(n) == IF n < 10 THEN <<Digit(n)>> ELSE NatToDec(n \div 10) \o <<Digit(n % 10)>>

\* printf's %d
ToDec(n) == IF n < 0 THEN <<"-">> \o NatToDec(0 - n) ELSE NatToDec(n)

CharAt(s, i) == IF i >= 1 /\ i <= Len(s) THEN s[i] ELSE NUL

\* strncmp(s, t, n) == 0
StrNEq(s, t, n) == \A i \in 1..n : CharAt(s, i) = CharAt(t, i)

\* snprintf(.., "%s_%d", name, ver)
VersionedName(name, ver) == name \o <<"_">> \o ToDec(ver)

\* snprintf(.., "%s/%s", BINARY_DIR_PATH, d_name)
PathOf(d_name) == BINARY_DIR_PATH \o <<"/">> \o d_name

\* The directory entry a path under BINARY_DIR_PATH resolves to.
EntryOf(filepath) == SubSeq(filepath, Len(BINARY_DIR_PATH) + 2, Len(filepath))

(***************************************************************************)
(* The Persistent Binary Store: a directory that may not exist, holding    *)
(* regular files.  store maps each d_name to the binary header the file    *)
(* starts with; a file that read_header rejects holds NoHeader.  A value   *)
(* fs is the record [dir |-> the directory exists, store |-> its files].   *)
(***************************************************************************)
NoHeader == [valid |-> FALSE, bin_name |-> <<>>, bin_ver |-> 0]

Header(name, ver) == [valid |-> TRUE, bin_name |-> name, bin_ver |-> ver]

\* open(filepath, O_RDWR | O_CREAT, 0666): the file is created empty when it
\* is absent and left as it is otherwise.  io_ok is whether the file system
\* lets the call through when the directory exists.
open_creat(filepath, fs, io_ok) ==
    IF ~fs.dir THEN [fd |-> -1, errno |-> "ENOENT", fs |-> fs]
    ELSE IF ~io_ok THEN [fd |-> -1, errno |-> "EIO", fs |-> fs]
    ELSE [fd |-> 3, errno |-> "OK",
          fs |-> [fs EXCEPT !.store =
                     [d \in DOMAIN fs.store \cup {EntryOf(filepath)} |->
                         IF d \in DOMAIN fs.store THEN fs.store[d] ELSE NoHeader]]]

\* mkdir(BINARY_DIR_PATH, 0777)
mkdir_store(fs, io_ok) ==
    IF fs.dir THEN [ret |-> -1, errno |-> "EEXIST", fs |-> fs]
    ELSE IF ~io_ok THEN [ret |-> -1, errno |-> "EIO", fs |-> fs]
    ELSE [ret |-> 0, errno |-> "OK", fs |-> [fs EXCEPT !.dir = TRUE]]

\* opendir(BINARY_DIR_PATH)
opendir_store(fs, io_ok) ==
    IF ~fs.dir THEN [dirp |-> FALSE, errno |-> "ENOENT"]
    ELSE IF ~io_ok THEN [dirp |-> FALSE, errno |-> "EACCES"]
    ELSE [dirp |-> TRUE, errno |-> "OK"]

\* unlink of every entry in gone
unlink_all(fs, gone) ==
    [fs EXCEPT !.store = [d \in DOMAIN fs.store \ gone |-> fs.store[d]]]

(***************************************************************************)
(* The Binary Registry (user slots) and the collaborators of this file     *)
(* that live in other files of the binary manager.                         *)
(***************************************************************************)
Slot(name, ver) == [name |-> name, kind |-> "User", ver |-> ver]

\* BIN_NAME(bin_idx), BIN_VER(bin_idx)
BIN_NAME(reg, bin_idx) == reg[bin_idx].name
BIN_VER(reg, bin_idx) == reg[bin_idx].ver

\* binary_manager_get_index_with_name: the slot's index, or -1
binary_manager_get_index_with_name(reg, name) ==
    IF \E i \in 1..Len(reg) : reg[i].name = name
    THEN CHOOSE i \in 1..Len(reg) : reg[i].name = name
    ELSE -1

\* binary_manager_register_ubin: a new User slot at the end of the table;
\* fails on a name already registered and on a full table.
binary_manager_register_ubin(reg, name) ==
    IF binary_manager_get_index_with_name(reg, name) >= 0 \/ Len(reg) >= USER_BIN_COUNT
    THEN [ret |-> -1, registry |-> reg]
    ELSE [ret |-> Len(reg) + 1, registry |-> Append(reg, Slot(name, UNLOADED_VER))]

\* binary_manager_read_header(filepath, &header_data, false)
binary_manager_read_header(fs, filepath) ==
    LET d == EntryOf(filepath) IN
    IF d \in DOMAIN fs.store /\ fs.store[d].valid
    THEN [ret |-> 0, header_data |-> fs.store[d]]
    ELSE [ret |-> -1, header_data |-> NoHeader]

\* binary_manager_send_response(q_name, &response_msg, size): one message on q_name
binary_manager_send_response(q_name, response_msg) ==
    [q_name |-> q_name, msg |-> response_msg]

(***************************************************************************)
(* binary_manager_clear_binfile                                            *)
(***************************************************************************)
\* The test of lines 69-70 on one regular file of the directory: the entry
\* starts with bin_name, an underscore follows, and the entry does not start
\* with running_file.
IsStaleEntry(d_name, bin_name, name_len, running_file) ==
    /\ StrNEq(d_name, bin_name, name_len)
    /\ CharAt(d_name, name_len + 1) = "_"
    /\ ~StrNEq(d_name, running_file, Len(running_file))

\* binary_manager_clear_binfile without the branch of lines 77-80.
binary_manager_clear_binfile_IgnoreError(bin_idx, reg, fs, opendir_ok) ==
    LET running_file == VersionedName(BIN_NAME(reg, bin_idx), BIN_VER(reg, bin_idx))
        bin_name == BIN_NAME(reg, bin_idx)
        name_len == Len(bin_name)
        od == opendir_store(fs, opendir_ok)
    IN  IF od.dirp
        THEN [ret |-> BINMGR_OK,
              fs |-> unlink_all(fs, {d \in DOMAIN fs.store :
                                       IsStaleEntry(d, bin_name, name_len, running_file)})]
        ELSE [ret |-> BINMGR_OK, fs |-> fs]

\* The result code and the store left behind.
binary_manager_clear_binfile(bin_idx, reg, fs, opendir_ok) ==
    LET running_file == VersionedName(BIN_NAME(reg, bin_idx), BIN_VER(reg, bin_idx))
        bin_name == BIN_NAME(reg, bin_idx)
        name_len == Len(bin_name)
        od == opendir_store(fs, opendir_ok)
    IN  IF od.dirp
        THEN [ret |-> BINMGR_OK,
              fs |-> unlink_all(fs, {d \in DOMAIN fs.store :
                                       IsStaleEntry(d, bin_name, name_len, running_file)})]
        ELSE IF od.errno # "ENOENT"
        THEN [ret |-> BINMGR_OPERATION_FAIL, fs |-> fs]
        ELSE [ret |-> BINMGR_OK, fs |-> fs]

(***************************************************************************)
(* binary_manager_scan_ubin                                                *)
(***************************************************************************)
\* One turn of the readdir loop, lines 113-121, on a regular file.
ScanEntry(reg, fs, d_name) ==
    LET h == binary_manager_read_header(fs, PathOf(d_name)) IN
    IF h.ret < 0 THEN reg
    ELSE binary_manager_register_ubin(reg, h.header_data.bin_name).registry

\* ScanEntries with break for the continue of line 117.
RECURSIVE ScanEntries_Break(_, _, _)
ScanEntries_Break(reg, fs, entries) ==
    IF entries = <<>> THEN reg
    ELSE IF binary_manager_read_header(fs, PathOf(Head(entries))).ret < 0 THEN reg
    ELSE ScanEntries_Break(ScanEntry(reg, fs, Head(entries)), fs, Tail(entries))

\* lines 106-122: the loop over the entries readdir gives
RECURSIVE ScanEntries(_, _, _)
ScanEntries(reg, fs, entries) ==
    IF entries = <<>> THEN reg
    ELSE ScanEntries(ScanEntry(reg, fs, Head(entries)), fs, Tail(entries))

\* binary_manager_scan_ubin filling the table from its start.
binary_manager_scan_ubin_Rebuild(reg, fs, entries, opendir_ok) ==
    IF opendir_store(fs, opendir_ok).dirp THEN ScanEntries(<<>>, fs, entries) ELSE reg

\* The registry after the scan, with readdir giving the files as entries.
binary_manager_scan_ubin(reg, fs, entries, opendir_ok) ==
    IF opendir_store(fs, opendir_ok).dirp THEN ScanEntries(reg, fs, entries) ELSE reg

RECURSIVE Perms(_)
Perms(S) == IF S = {} THEN {<<>>}
            ELSE UNION {{<<x>> \o p : p \in Perms(S \ {x})} : x \in S}

RECURSIVE SomeOrder(_)
SomeOrder(S) == IF S = {} THEN <<>>
                ELSE LET x == CHOOSE x \in S : TRUE IN <<x>> \o SomeOrder(S \ {x})

\* The orders readdir may give the files in: every order of the files whose
\* header read_header accepts, with the files it rejects before them or
\* after them.
ReaddirOrders(fs) ==
    LET parsed == {d \in DOMAIN fs.store : fs.store[d].valid}
        rejected == SomeOrder(DOMAIN fs.store \ parsed)
    IN  {rejected \o p : p \in Perms(parsed)} \cup {p \o rejected : p \in Perms(parsed)}

(***************************************************************************)
(* binary_manager_create_entry                                             *)
(***************************************************************************)
BIN_NAME_MAX == 16

\* line 146
InvalidRequest(requester_pid, bin_name, version) ==
    requester_pid < 0 \/ bin_name = NULL \/ version < 0

\* line 153: !strncmp("kernel", bin_name, BIN_NAME_MAX)
IsKernelName(bin_name) == StrNEq(KERNEL_NAME, bin_name, BIN_NAME_MAX)

\* InactiveIdx without the exclusive or.
InactiveIdx_InUse(inuse_idx) == inuse_idx

\* kerinfo->inuse_idx ^ 1
InactiveIdx(inuse_idx) == IF inuse_idx % 2 = 0 THEN inuse_idx + 1 ELSE inuse_idx - 1

\* snprintf(.., BINMGR_DEVNAME_FMT, part_num)
DevName(part_num) == DEVNAME_PREFIX \o ToDec(part_num)

\* lines 154-161: the kernel path; junk is what the unset binpath holds
KernelEntry(kd, junk) ==
    IF kd.part_count > 1
    THEN [result |-> BINMGR_OK,
          binpath |-> DevName(kd.part_info[InactiveIdx(kd.inuse_idx)].part_num)]
    ELSE [result |-> BINMGR_NOT_FOUND, binpath |-> junk]

\* IsRunningVersion comparing with > for ==.
IsRunningVersion_Older(reg, bin_idx, version) == BIN_VER(reg, bin_idx) > version

\* line 168
IsRunningVersion(reg, bin_idx, version) == BIN_VER(reg, bin_idx) = version

\* FilePath with "%s/%s" for "%s/%s_%d".
FilePath_NoVersion(bin_name, version) == BINARY_DIR_PATH \o <<"/">> \o bin_name

\* line 190: snprintf(.., "%s/%s_%d", BINARY_DIR_PATH, bin_name, version)
FilePath(bin_name, version) == BINARY_DIR_PATH \o <<"/">> \o bin_name \o <<"_">> \o ToDec(version)

\* An entry of the log of calls: the call and the errno it left ("OK" when
\* it succeeded).
Call(c, e) == [call |-> c, errno |-> e]

\* CreateBinfile without the branch of line 197.
CreateBinfile_NoRetry(filepath, fs, env, junk) ==
    LET o1 == open_creat(filepath, fs, env.open_ok) IN
    IF o1.fd > 0
    THEN [result |-> BINMGR_OK, binpath |-> filepath, fs |-> o1.fs,
          calls |-> <<Call("open", o1.errno)>>]
    ELSE [result |-> BINMGR_OPERATION_FAIL, binpath |-> junk, fs |-> o1.fs,
          calls |-> <<Call("open", o1.errno)>>]

\* CreateBinfile opening a third time when the second open fails.
CreateBinfile_ThirdTry(filepath, fs, env, junk) ==
    LET o1 == open_creat(filepath, fs, env.open_ok) IN
    IF o1.fd > 0
    THEN [result |-> BINMGR_OK, binpath |-> filepath, fs |-> o1.fs,
          calls |-> <<Call("open", o1.errno)>>]
    ELSE IF o1.errno = "ENOENT"
    THEN LET m == mkdir_store(o1.fs, env.mkdir_ok) IN
         IF m.ret = 0
         THEN LET o2 == open_creat(filepath, m.fs, env.reopen_ok) IN
              IF o2.fd > 0
              THEN [result |-> BINMGR_OK, binpath |-> filepath, fs |-> o2.fs,
                    calls |-> <<Call("open", o1.errno), Call("mkdir", m.errno),
                                Call("open", o2.errno)>>]
              ELSE LET o3 == open_creat(filepath, o2.fs, TRUE) IN
                   [result |-> BINMGR_OK, binpath |-> filepath, fs |-> o3.fs,
                    calls |-> <<Call("open", o1.errno), Call("mkdir", m.errno),
                                Call("open", o2.errno), Call("open", o3.errno)>>]
         ELSE [result |-> BINMGR_OPERATION_FAIL, binpath |-> junk, fs |-> m.fs,
               calls |-> <<Call("open", o1.errno), Call("mkdir", m.errno)>>]
    ELSE [result |-> BINMGR_OPERATION_FAIL, binpath |-> junk, fs |-> o1.fs,
          calls |-> <<Call("open", o1.errno)>>]

\* lines 187-209: create the file, making the directory and trying once more
\* when the first open fails with ENOENT
CreateBinfile(filepath, fs, env, junk) ==
    LET o1 == open_creat(filepath, fs, env.open_ok) IN
    IF o1.fd > 0
    THEN [result |-> BINMGR_OK, binpath |-> filepath, fs |-> o1.fs,
          calls |-> <<Call("open", o1.errno)>>]
    ELSE IF o1.errno = "ENOENT"
    THEN LET m == mkdir_store(o1.fs, env.mkdir_ok) IN
         IF m.ret = 0
         THEN LET o2 == open_creat(filepath, m.fs, env.reopen_ok) IN
              IF o2.fd > 0
              THEN [result |-> BINMGR_OK, binpath |-> filepath, fs |-> o2.fs,
                    calls |-> <<Call("open", o1.errno), Call("mkdir", m.errno),
                                Call("open", o2.errno)>>]
              ELSE [result |-> BINMGR_OPERATION_FAIL, binpath |-> junk, fs |-> o2.fs,
                    calls |-> <<Call("open", o1.errno), Call("mkdir", m.errno),
                                Call("open", o2.errno)>>]
         ELSE [result |-> BINMGR_OPERATION_FAIL, binpath |-> junk, fs |-> m.fs,
               calls |-> <<Call("open", o1.errno), Call("mkdir", m.errno)>>]
    ELSE [result |-> BINMGR_OPERATION_FAIL, binpath |-> junk, fs |-> o1.fs,
          calls |-> <<Call("open", o1.errno)>>]

\* KernelPath without the goto of line 161: it goes on to look the name up
\* and to register it.
KernelPath_FallThrough(fs, reg, kd, junk) ==
    LET k == KernelEntry(kd, junk) IN
    [result |-> k.result, binpath |-> k.binpath, fs |-> fs,
     registry |-> binary_manager_register_ubin(reg, KERNEL_NAME).registry,
     cleared |-> fs.store,
     calls |-> <<Call("get_kdata", "OK"), Call("get_index", "OK"), Call("register", "OK")>>]

\* lines 153-162: the kernel path, which asks only for the partition catalog
KernelPath(fs, reg, kd, junk) ==
    LET k == KernelEntry(kd, junk) IN
    [result |-> k.result, binpath |-> k.binpath, fs |-> fs, registry |-> reg,
     cleared |-> fs.store, calls |-> <<Call("get_kdata", "OK")>>]

\* RegisteredPath writing the staged version to the slot when the file is
\* created.
RegisteredPath_SetVersion(bin_idx, bin_name, version, fs, reg, env, junk) ==
    IF IsRunningVersion(reg, bin_idx, version)
    THEN [result |-> BINMGR_ALREADY_UPDATED, binpath |-> junk, fs |-> fs,
          registry |-> reg, cleared |-> fs.store,
          calls |-> <<Call("get_index", "OK")>>]
    ELSE LET c == binary_manager_clear_binfile(bin_idx, reg, fs, env.opendir_ok)
             od == Call("opendir", opendir_store(fs, env.opendir_ok).errno)
         IN
         IF c.ret < 0
         THEN [result |-> c.ret, binpath |-> junk, fs |-> c.fs, registry |-> reg,
               cleared |-> c.fs.store,
               calls |-> <<Call("get_index", "OK"), od>>]
         ELSE LET f == CreateBinfile(FilePath(bin_name, version), c.fs, env, junk) IN
              [result |-> f.result, binpath |-> f.binpath, fs |-> f.fs,
               registry |-> IF f.result = BINMGR_OK
                            THEN [reg EXCEPT ![bin_idx].ver = version] ELSE reg,
               cleared |-> c.fs.store,
               calls |-> <<Call("get_index", "OK"), od>> \o f.calls]

\* lines 166-178, 187-209: the path of a binary found in the table at bin_idx
RegisteredPath(bin_idx, bin_name, version, fs, reg, env, junk) ==
    IF IsRunningVersion(reg, bin_idx, version)
    THEN [result |-> BINMGR_ALREADY_UPDATED, binpath |-> junk, fs |-> fs,
          registry |-> reg, cleared |-> fs.store,
          calls |-> <<Call("get_index", "OK")>>]
    ELSE LET c == binary_manager_clear_binfile(bin_idx, reg, fs, env.opendir_ok)
             od == Call("opendir", opendir_store(fs, env.opendir_ok).errno)
         IN
         IF c.ret < 0
         THEN [result |-> c.ret, binpath |-> junk, fs |-> c.fs, registry |-> reg,
               cleared |-> c.fs.store,
               calls |-> <<Call("get_index", "OK"), od>>]
         ELSE LET f == CreateBinfile(FilePath(bin_name, version), c.fs, env, junk) IN
              [result |-> f.result, binpath |-> f.binpath, fs |-> f.fs,
               registry |-> reg, cleared |-> c.fs.store,
               calls |-> <<Call("get_index", "OK"), od>> \o f.calls]

\* UnregisteredPath without the check of line 182.
UnregisteredPath_IgnoreFail(bin_name, version, fs, reg, env, junk) ==
    LET r == binary_manager_register_ubin(reg, bin_name)
        rg == Call("register", IF r.ret < 0 THEN "FULL" ELSE "OK")
        f == CreateBinfile(FilePath(bin_name, version), fs, env, junk)
    IN  [result |-> f.result, binpath |-> f.binpath, fs |-> f.fs,
         registry |-> r.registry, cleared |-> fs.store,
         calls |-> <<Call("get_index", "OK"), rg>> \o f.calls]

\* UnregisteredPath taking the slot back when the file is not created.
UnregisteredPath_Rollback(bin_name, version, fs, reg, env, junk) ==
    LET r == binary_manager_register_ubin(reg, bin_name)
        rg == Call("register", IF r.ret < 0 THEN "FULL" ELSE "OK")
    IN
    IF r.ret < 0
    THEN [result |-> BINMGR_OPERATION_FAIL, binpath |-> junk, fs |-> fs,
          registry |-> r.registry, cleared |-> fs.store,
          calls |-> <<Call("get_index", "OK"), rg>>]
    ELSE LET f == CreateBinfile(FilePath(bin_name, version), fs, env, junk) IN
         [result |-> f.result, binpath |-> f.binpath, fs |-> f.fs,
          registry |-> IF f.result = BINMGR_OK THEN r.registry ELSE reg,
          cleared |-> fs.store,
          calls |-> <<Call("get_index", "OK"), rg>> \o f.calls]

\* lines 179-209: the path of a binary the table does not hold
UnregisteredPath(bin_name, version, fs, reg, env, junk) ==
    LET r == binary_manager_register_ubin(reg, bin_name)
        rg == Call("register", IF r.ret < 0 THEN "FULL" ELSE "OK")
    IN
    IF r.ret < 0
    THEN [result |-> BINMGR_OPERATION_FAIL, binpath |-> junk, fs |-> fs,
          registry |-> r.registry, cleared |-> fs.store,
          calls |-> <<Call("get_index", "OK"), rg>>]
    ELSE LET f == CreateBinfile(FilePath(bin_name, version), fs, env, junk) IN
         [result |-> f.result, binpath |-> f.binpath, fs |-> f.fs,
          registry |-> r.registry, cleared |-> fs.store,
          calls |-> <<Call("get_index", "OK"), rg>> \o f.calls]

\* lines 146-209: the response message, the store and the registry left
\* behind, the store as the collector left it (cleared), and the calls made
ResolveEntry(requester_pid, bin_name, version, fs, reg, kd, env, junk) ==
    IF InvalidRequest(requester_pid, bin_name, version)
    THEN [result |-> BINMGR_INVALID_PARAM, binpath |-> junk, fs |-> fs, registry |-> reg,
          cleared |-> fs.store, calls |-> <<>>]
    ELSE IF IsKernelName(bin_name)
    THEN KernelPath(fs, reg, kd, junk)
    ELSE LET bin_idx == binary_manager_get_index_with_name(reg, bin_name) IN
         IF bin_idx >= 0
         THEN RegisteredPath(bin_idx, bin_name, version, fs, reg, env, junk)
         ELSE UnregisteredPath(bin_name, version, fs, reg, env, junk)

\* line 211: snprintf(q_name, .., "%s%d", BINMGR_RESPONSE_MQ_PREFIX, requester_pid)
QName(requester_pid) == BINMGR_RESPONSE_MQ_PREFIX \o ToDec(requester_pid)

\* SendResult with the failed check of line 146 returning at once.
SendResult_SkipInvalid(requester_pid, response_msg) ==
    IF response_msg.result = BINMGR_INVALID_PARAM THEN <<>>
    ELSE <<binary_manager_send_response(QName(requester_pid), response_msg)>>

\* lines 210-212: the messages sent at send_result
SendResult(requester_pid, response_msg) ==
    <<binary_manager_send_response(QName(requester_pid), response_msg)>>

\* ReturnValue with return BINMGR_OK for line 214.
ReturnValue_Ok(response_msg) == BINMGR_OK

\* line 214
ReturnValue(response_msg) == response_msg.result

(***************************************************************************)
(* State.                                                                  *)
(***************************************************************************)
VARIABLES
    dir_exists,  \* BINARY_DIR_PATH exists
    store,       \* its regular files: d_name -> header
    registry,    \* the user slots, in table order
    kdata,       \* the kernel's partition catalog (binary_manager_get_kdata)
    op,          \* "create" or "scan" when that operation has just run, else "idle"
    req,         \* its arguments
    pre,         \* the store and the registry it found
    calls,       \* the collaborator and file system calls it made, in order
    cleared,     \* the files of the store as the collector left them
    sent,        \* the responses it sent
    ret          \* the value it returned

vars == <<dir_exists, store, registry, kdata, op, req, pre, calls, cleared, sent, ret>>

\* Names a request may carry, besides the null pointer.
BootNames == {<<"a">>, <<"a", "_", "b">>}
RequestNames == {NULL, <<>>, KERNEL_NAME} \cup BootNames
Pids == {-1, 7}
Versions == (-1..MaxVer) \cup {LongVer}
\* What the file system does to the calls of one request: whether opendir,
\* the first open, mkdir and the second open get through (where the
\* directory's absence does not decide it).  A call that fails ends the
\* request, so one failure a request is every behaviour.
Envs == {e \in [opendir_ok : BOOLEAN, open_ok : BOOLEAN, mkdir_ok : BOOLEAN,
                reopen_ok : BOOLEAN] :
            Cardinality({f \in {"opendir_ok", "open_ok", "mkdir_ok", "reopen_ok"} : ~e[f]}) <= 1}
\* What the response's binpath may hold when no path was written to it.
StackJunk == {<<>>, <<"?">>}

NoReq == [requester_pid |-> 0, bin_name |-> <<>>, version |-> 0]

\* The requests: every one that passes the check of line 146, and of those
\* that do not, the ones for the null name and for "a", of versions -1 and 1.
Requests ==
    {r \in [requester_pid : Pids, bin_name : RequestNames, version : Versions] :
        \/ r.requester_pid >= 0 /\ r.bin_name # NULL /\ r.version >= 0
        \/ r.bin_name \in {NULL, <<"a">>} /\ r.version \in {-1, 1}}

Snapshot == [dir |-> dir_exists, store |-> store, registry |-> registry, kdata |-> kdata]

\* The store of a booted system: of each binary n the versions 1 .. k[n],
\* each file with its header.
BootFiles(k) == UNION {{VersionedName(n, v) : v \in 1..k[n]} : n \in BootNames}
BootStore(S) ==
    [d \in S |-> CHOOSE h \in {Header(n, v) : n \in BootNames, v \in 1..MaxBootVer} :
                     VersionedName(h.bin_name, h.bin_ver) = d]

\* Its registry: empty before the first scan, and afterwards every binary
\* of the store, loaded from its latest version.
BootRegistry(k) ==
    LET loaded == SomeOrder({n \in BootNames : k[n] >= 1}) IN
    [i \in 1..Len(loaded) |-> Slot(loaded[i], k[loaded[i]])]

Catalogs ==
    {[part_count |-> c, inuse_idx |-> i,
      part_info |-> [x \in 0..1 |-> [part_num |-> 4 + x]]] :
        c \in 1..2, i \in 0..1}

Init ==
    /\ \E k \in [BootNames -> 0..MaxBootVer] :
          /\ store = BootStore(BootFiles(k))
          /\ dir_exists \in (IF BootFiles(k) = {} THEN BOOLEAN ELSE {TRUE})
          /\ registry \in {<<>>, BootRegistry(k)}
          \* every catalog on a fresh store, the two-partition one on the others
          /\ kdata \in {c \in Catalogs :
                          /\ c.inuse_idx < c.part_count
                          /\ BootFiles(k) # {} => c.part_count = 2 /\ c.inuse_idx = 0}
    /\ op = "idle"
    /\ req = NoReq
    /\ pre = [dir |-> dir_exists, store |-> store, registry |-> registry, kdata |-> kdata]
    /\ calls = <<>>
    /\ cleared = store
    /\ sent = <<>>
    /\ ret = 0

(***************************************************************************)
(* Operations.                                                             *)
(***************************************************************************)
CreateEntry ==
    /\ op = "idle"
    /\ \E request \in Requests, env \in Envs, junk \in StackJunk :
        LET requester_pid == request.requester_pid
            bin_name == request.bin_name
            version == request.version
            r == ResolveEntry(requester_pid, bin_name, version,
                              [dir |-> dir_exists, store |-> store], registry, kdata,
                              env, junk)
            response_msg == [result |-> r.result, binpath |-> r.binpath]
        IN  /\ dir_exists' = r.fs.dir
            /\ store' = r.fs.store
            /\ registry' = r.registry
            /\ sent' = SendResult(requester_pid, response_msg)
            /\ ret' = ReturnValue(response_msg)
            /\ calls' = r.calls
            /\ cleared' = r.cleared
            /\ op' = "create"
            /\ req' = request
            /\ pre' = Snapshot
            /\ UNCHANGED kdata

Scan ==
    /\ op = "idle"
    /\ \E opendir_ok \in BOOLEAN :
      \E entries \in ReaddirOrders([dir |-> dir_exists, store |-> store]) :
        /\ registry' = binary_manager_scan_ubin(registry,
                           [dir |-> dir_exists, store |-> store], entries, opendir_ok)
        /\ op' = "scan"
        /\ req' = NoReq
        /\ pre' = Snapshot
        /\ calls' = <<Call("opendir",
                         opendir_store([dir |-> dir_exists, store |-> store], opendir_ok).errno)>>
        /\ cleared' = store
        /\ sent' = <<>>
        /\ ret' = 0
        /\ UNCHANGED <<dir_exists, store, kdata>>

\* The operation has returned to the manager's loop, which takes the next one.
Return ==
    /\ op # "idle"
    /\ op' = "idle"
    /\ req' = NoReq
    /\ pre' = Snapshot
    /\ calls' = <<>>
    /\ cleared' = store
    /\ sent' = <<>>
    /\ ret' = 0
    /\ UNCHANGED <<dir_exists, store, registry, kdata>>

Next == CreateEntry \/ Scan \/ Return

Spec == Init /\ [][Next]_vars

(***************************************************************************)
(* Vocabulary of the properties.                                           *)
(***************************************************************************)
\* The last operation was a create-entry request.
Created == op = "create"

\* It passed the check of its parameters and was for a user binary.
UserRequest ==
    /\ Created
    /\ req.requester_pid >= 0 /\ req.bin_name # NULL /\ req.version >= 0
    /\ req.bin_name # KERNEL_NAME

\* The slot the request's name had in the registry the request found.
FoundSlots == {i \in 1..Len(pre.registry) : pre.registry[i].name = req.bin_name}

\* The collector ran in the request and returned BINMGR_OK.
Collected ==
    /\ UserRequest
    /\ \E i \in 1..Len(calls) : calls[i].call = "opendir" /\ calls[i].errno \in {"OK", "ENOENT"}

\* d is a file of the binary called name: name, an underscore, a version.
IsFileOf(d, name) ==
    \E v \in 0..(LongVer + MaxVer + MaxBootVer) : d = name \o <<"_">> \o ToDec(v)

\* d starts with name followed by an underscore.
HasPrefix(d, name) ==
    /\ Len(d) > Len(name)
    /\ SubSeq(d, 1, Len(name)) = name
    /\ d[Len(name) + 1] = "_"

ResultCodes == {BINMGR_OK, BINMGR_INVALID_PARAM, BINMGR_NOT_FOUND, BINMGR_ALREADY_UPDATED,
                BINMGR_OPERATION_FAIL}

(***************************************************************************)
(* C1.  Every create-entry request, whatever its outcome, sends exactly    *)
(* one response, on the queue named by the response-queue prefix followed  *)
(* by the requester's id in decimal; no other operation sends one.         *)
(***************************************************************************)
C1_OneResponse ==
    /\ Created =>
          /\ Len(sent) = 1
          /\ sent[1].msg.result \in ResultCodes
          /\ req.requester_pid = 7 => sent[1].q_name = <<"r", "e", "s", "p", "7">>
          /\ req.requester_pid = -1 => sent[1].q_name = <<"r", "e", "s", "p", "-", "1">>
    /\ ~Created => sent = <<>>

\* A request that failed in the file system has been answered.
C1_Witness ==
    /\ Created
    /\ ret = BINMGR_OPERATION_FAIL
    /\ Len(sent) = 1
    /\ sent[1].q_name = <<"r", "e", "s", "p", "7">>

(***************************************************************************)
(* C2.  No create-entry request and no scan removes from the store the     *)
(* file {name}_{current_version} of a registered user binary.              *)
(***************************************************************************)
C2_RunningFileKept ==
    op \in {"create", "scan"} =>
        \A i \in 1..Len(pre.registry) :
            LET running == VersionedName(pre.registry[i].name, pre.registry[i].ver) IN
            running \in DOMAIN pre.store => running \in DOMAIN store

(***************************************************************************)
(* C3.  When the collector has completed for a slot named N of running     *)
(* version V whose file N_V is on the store, the store holds exactly one   *)
(* file starting with N and an underscore, and that file is N_V.           *)
(***************************************************************************)
C3_OnlyRunningLeft ==
    Collected =>
        \A i \in FoundSlots :
            LET running == VersionedName(pre.registry[i].name, pre.registry[i].ver) IN
            running \in DOMAIN pre.store =>
                {d \in DOMAIN cleared : HasPrefix(d, req.bin_name)} = {running}

(***************************************************************************)
(* C4.  The collector run for binary N leaves on the store every file of   *)
(* every other registered binary, whatever prefix the names share.         *)
(***************************************************************************)
C4_OtherBinariesKept ==
    Collected =>
        \A j \in 1..Len(pre.registry) :
            pre.registry[j].name # req.bin_name =>
                \A d \in DOMAIN pre.store :
                    IsFileOf(d, pre.registry[j].name) => d \in DOMAIN cleared

(***************************************************************************)
(* C5.  A create-entry request with a negative requester id, an empty      *)
(* bin_name or a negative version returns InvalidParam and leaves the      *)
(* store and the registry as they were.                                    *)
(***************************************************************************)
C5_InvalidRejected ==
    (Created /\ (req.requester_pid < 0 \/ req.bin_name \in {NULL, <<>>} \/ req.version < 0)) =>
        /\ ret = BINMGR_INVALID_PARAM
        /\ dir_exists = pre.dir
        /\ store = pre.store
        /\ registry = pre.registry

(***************************************************************************)
(* C6.  A valid create-entry request for "kernel" returns Ok with the      *)
(* device path of partition index 1 when inuse_idx is 0 and of partition   *)
(* index 0 when inuse_idx is 1, if part_count is greater than 1, and       *)
(* returns NotFound if part_count is 1.                                    *)
(***************************************************************************)
KernelRequest ==
    /\ Created
    /\ req.requester_pid >= 0 /\ req.version >= 0
    /\ req.bin_name = KERNEL_NAME

C6_InactivePartition ==
    KernelRequest =>
        /\ (kdata.part_count > 1 /\ kdata.inuse_idx = 0) =>
              /\ ret = BINMGR_OK
              /\ sent[1].msg.binpath = DEVNAME_PREFIX \o ToDec(kdata.part_info[1].part_num)
        /\ (kdata.part_count > 1 /\ kdata.inuse_idx = 1) =>
              /\ ret = BINMGR_OK
              /\ sent[1].msg.binpath = DEVNAME_PREFIX \o ToDec(kdata.part_info[0].part_num)
        /\ kdata.part_count = 1 => ret = BINMGR_NOT_FOUND

\* A kernel request answered with partition 0 while partition 1 is in use.
C6_Witness ==
    /\ KernelRequest
    /\ kdata.part_count = 2 /\ kdata.inuse_idx = 1
    /\ ret = BINMGR_OK
    /\ sent[1].msg.binpath = <<"/", "d", "e", "v", "/", "m", "t", "d", "4">>

(***************************************************************************)
(* C7.  A create-entry request for a registered user binary whose          *)
(* current_version is the requested version returns AlreadyUpdated, makes  *)
(* no file system call and leaves the store and the registry as they       *)
(* were; as the state it leaves is the state it found, every repetition    *)
(* of the request does the same.                                           *)
(***************************************************************************)
C7_AlreadyUpdated ==
    (UserRequest /\ \E i \in FoundSlots : pre.registry[i].ver = req.version) =>
        /\ ret = BINMGR_ALREADY_UPDATED
        /\ dir_exists = pre.dir
        /\ store = pre.store
        /\ registry = pre.registry
        /\ calls = <<Call("get_index", "OK")>>

\* The running version of a booted binary was requested again.
C7_Witness ==
    /\ UserRequest
    /\ \E i \in FoundSlots : pre.registry[i].ver = req.version /\ req.version = 1
    /\ VersionedName(req.bin_name, req.version) \in DOMAIN store
    /\ ret = BINMGR_ALREADY_UPDATED

C9_OkMeansFile ==
    (UserRequest /\ ret = BINMGR_OK) =>
        /\ dir_exists
        /\ VersionedName(req.bin_name, req.version) \in DOMAIN store
        /\ sent[1].msg.result = BINMGR_OK
        /\ sent[1].msg.binpath = PathOf(VersionedName(req.bin_name, req.version))

\* A file that was not on the store has been created and its path returned.
C9_Witness ==
    /\ UserRequest
    /\ ret = BINMGR_OK
    /\ req.version = LongVer
    /\ VersionedName(req.bin_name, req.version) \notin DOMAIN pre.store
    /\ VersionedName(req.bin_name, req.version) \in DOMAIN store

(***************************************************************************)
(* C10.  A scan removes no slot of the registry and changes the name, the  *)
(* kind and the current_version of none; a name is in the registry at      *)
(* most once, and a scan that finds several files of one binary and room   *)
(* in the table leaves that binary in it exactly once.                     *)
(***************************************************************************)
SlotsNamed(reg, name) == {i \in 1..Len(reg) : reg[i].name = name}

NewSlots == (Len(pre.registry) + 1)..Len(registry)

C11_ScanSlotVersion ==
    op = "scan" =>
        \A i \in NewSlots :
            /\ registry[i].kind = "User"
            /\ \E d \in DOMAIN store :
                  /\ store[d].valid
                  /\ store[d].bin_name = registry[i].name
                  /\ store[d].bin_ver = registry[i].ver

(***************************************************************************)
(* C12.  A create-entry request and a scan leave every slot the registry   *)
(* held where it was and as it was, and a create-entry request adds at     *)
(* most one slot, for the name of a user request that the registry did     *)
(* not hold.                                                               *)
(***************************************************************************)
C12_RegistryGrowsOnly ==
    /\ op \in {"create", "scan"} =>
          /\ Len(registry) >= Len(pre.registry)
          /\ \A i \in 1..Len(pre.registry) : registry[i] = pre.registry[i]
    /\ Created =>
          \/ registry = pre.registry
          \/ /\ UserRequest
             /\ FoundSlots = {}
             /\ Len(registry) = Len(pre.registry) + 1
             /\ registry[Len(registry)].name = req.bin_name
             /\ registry[Len(registry)].kind = "User"

\* A version was staged for a registered binary, and a request for an
\* unknown name added its slot.
C12_Witness ==
    \/ /\ UserRequest /\ FoundSlots # {} /\ ret = BINMGR_OK
       /\ req.version > pre.registry[CHOOSE i \in FoundSlots : TRUE].ver
    \/ /\ UserRequest /\ FoundSlots = {} /\ Len(registry) = Len(pre.registry) + 1
       /\ Len(pre.registry) >= 1

(***************************************************************************)
(* C13.  After a successful create-entry request for a registered user     *)
(* binary, the store holds of that binary's versioned files only the file  *)
(* of the running version and the file just staged.                        *)
(***************************************************************************)
C13_TwoVersionsAtMost ==
    (UserRequest /\ FoundSlots # {} /\ ret = BINMGR_OK) =>
        \A d \in DOMAIN store :
            IsFileOf(d, req.bin_name) =>
                \/ d = VersionedName(req.bin_name, req.version)
                \/ \E i \in FoundSlots : d = VersionedName(req.bin_name, pre.registry[i].ver)

(***************************************************************************)
(* C14.  When the collector's opendir fails on a store directory that      *)
(* exists, the request for a registered binary and a version other than    *)
(* the running one returns and responds BINMGR_OPERATION_FAIL and makes no *)
(* further call: the files, the directory and the registry are as the      *)
(* request found them.                                                     *)
(***************************************************************************)
CollectorFailed ==
    /\ UserRequest
    /\ FoundSlots # {}
    /\ \E i \in 1..Len(calls) :
          calls[i].call = "opendir" /\ calls[i].errno \notin {"OK", "ENOENT"}

C14_CollectorFailureAborts ==
    CollectorFailed =>
        /\ ret = BINMGR_OPERATION_FAIL
        /\ Len(sent) = 1 /\ sent[1].msg.result = BINMGR_OPERATION_FAIL
        /\ calls = <<Call("get_index", "OK"), Call("opendir", "EACCES")>>
        /\ store = pre.store
        /\ dir_exists = pre.dir
        /\ registry = pre.registry

\* The directory that could not be opened holds a stale file of the binary.
C14_Witness ==
    /\ CollectorFailed
    /\ pre.dir
    /\ \E d \in DOMAIN pre.store, i \in FoundSlots :
          /\ IsFileOf(d, req.bin_name)
          /\ d # VersionedName(req.bin_name, pre.registry[i].ver)
    /\ VersionedName(req.bin_name, req.version) \notin DOMAIN pre.store

(***************************************************************************)
(* C15.  A user request opens the file at most twice and makes the         *)
(* directory at most once: a first open that fails otherwise than by       *)
(* ENOENT, a mkdir that fails, and a second open that fails are each the   *)
(* request's last call, and the request returns BINMGR_OPERATION_FAIL.     *)
(***************************************************************************)
CallsOf(c) == {i \in 1..Len(calls) : calls[i].call = c}

C15_BoundedRetry ==
    UserRequest =>
        /\ Cardinality(CallsOf("open")) <= 2
        /\ Cardinality(CallsOf("mkdir")) <= 1
        /\ \A i \in CallsOf("open") :
              \/ calls[i].errno = "OK" /\ i = Len(calls) /\ ret = BINMGR_OK
              \/ /\ calls[i].errno = "ENOENT"
                 /\ CallsOf("mkdir") = {i + 1}
                 /\ \A j \in CallsOf("open") : j >= i
              \/ /\ calls[i].errno \notin {"OK", "ENOENT"}
                 /\ i = Len(calls)
                 /\ ret = BINMGR_OPERATION_FAIL
        /\ \A i \in CallsOf("mkdir") :
              \/ calls[i].errno = "OK" /\ CallsOf("open") = {i - 1, i + 1} /\ i + 1 = Len(calls)
              \/ calls[i].errno # "OK" /\ i = Len(calls) /\ ret = BINMGR_OPERATION_FAIL

\* The second open failed after the directory was made.
C15_Witness ==
    /\ UserRequest
    /\ Cardinality(CallsOf("open")) = 2
    /\ calls[Len(calls)] = Call("open", "EIO")
    /\ dir_exists /\ ~pre.dir
    /\ ret = BINMGR_OPERATION_FAIL

(***************************************************************************)
(* C16.  A scan that opens the directory leaves in the registry the name   *)
(* of every file whose header read_header accepts, as far as the table     *)
(* has room, whether files it rejects come before it or not; a file it     *)
(* rejects adds no slot; and a scan that finds no directory leaves the     *)
(* registry as it was.                                                     *)
(***************************************************************************)
RegisteredNames(reg) == {reg[i].name : i \in 1..Len(reg)}

C17_KernelPathFrame ==
    KernelRequest =>
        /\ ret \in {BINMGR_OK, BINMGR_NOT_FOUND}
        /\ calls = <<Call("get_kdata", "OK")>>
        /\ store = pre.store
        /\ dir_exists = pre.dir
        /\ registry = pre.registry
        /\ kdata = pre.kdata

\* A kernel request that returned BINMGR_OK with the table not full and the
\* directory absent.
C17_Witness ==
    /\ KernelRequest
    /\ ret = BINMGR_OK
    /\ Len(pre.registry) < USER_BIN_COUNT
    /\ ~pre.dir

(***************************************************************************)
(* C18.  When the request's name is not in the registry and                *)
(* binary_manager_register_ubin fails, the request returns and responds    *)
(* BINMGR_OPERATION_FAIL without an open or a mkdir: the files and the     *)
(* directory are as the request found them.                                *)
(***************************************************************************)
RegisterFailed ==
    /\ UserRequest
    /\ FoundSlots = {}
    /\ \E i \in 1..Len(calls) : calls[i].call = "register" /\ calls[i].errno # "OK"

C18_RegisterFailureAborts ==
    RegisterFailed =>
        /\ ret = BINMGR_OPERATION_FAIL
        /\ Len(sent) = 1 /\ sent[1].msg.result = BINMGR_OPERATION_FAIL
        /\ CallsOf("open") = {} /\ CallsOf("mkdir") = {}
        /\ store = pre.store
        /\ dir_exists = pre.dir

\* The registration failed with the directory absent and every later call
\* free to succeed.
C18_Witness ==
    /\ RegisterFailed
    /\ ~pre.dir
    /\ Len(pre.registry) = USER_BIN_COUNT

(***************************************************************************)
(* C19.  When the request registered its name and then failed to create    *)
(* the file, the new slot is still in the registry; and a request whose    *)
(* name the registry holds does not register again: after the lookup it    *)
(* compares the version and, if that differs, calls the collector.         *)
(***************************************************************************)
RegisteredThenFailed ==
    /\ UserRequest
    /\ FoundSlots = {}
    /\ Len(calls) >= 2 /\ calls[2] = Call("register", "OK")
    /\ ret = BINMGR_OPERATION_FAIL

C19_NoRollback ==
    /\ RegisteredThenFailed =>
          /\ Len(registry) = Len(pre.registry) + 1
          /\ registry[Len(registry)].name = req.bin_name
          /\ binary_manager_get_index_with_name(registry, req.bin_name) >= 0
    /\ (UserRequest /\ FoundSlots # {}) =>
          /\ CallsOf("register") = {}
          /\ \/ calls = <<Call("get_index", "OK")>> /\ ret = BINMGR_ALREADY_UPDATED
             \/ Len(calls) >= 2 /\ calls[2].call = "opendir"

\* The slot was registered and the second open, after the mkdir, failed.
C19_Witness ==
    /\ RegisteredThenFailed
    /\ CallsOf("mkdir") # {}
    /\ calls[Len(calls)] = Call("open", "EIO")

(***************************************************************************)
(* C20.  The value a create-entry request returns is the result code of    *)
(* the response it sent, and it is one of BINMGR_OK, BINMGR_INVALID_PARAM, *)
(* BINMGR_NOT_FOUND, BINMGR_ALREADY_UPDATED and BINMGR_OPERATION_FAIL.     *)
(***************************************************************************)
C20_ReturnIsResponse ==
    Created =>
        /\ Len(sent) >= 1
        /\ \A i \in 1..Len(sent) : sent[i].msg.result = ret
        /\ ret \in ResultCodes

\* A request returned a code other than BINMGR_OK, the one from the
\* collector.
C20_Witness ==
    /\ CollectorFailed
    /\ ret = BINMGR_OPERATION_FAIL
    /\ Len(sent) = 1 /\ sent[1].msg.result = ret

====
